---- MODULE Spec2Model ----
(***************************************************************************)
(* Frame presentation loop of vulkan-sandbox (src/src/main.rs) together    *)
(* with the swapchain-dependent setup of src/src/vulkan/initialization.rs. *)
(*                                                                         *)
(* The closure handed to event_loop.run is the only code that runs after   *)
(* construction.  It is modelled by its position (pc): an event is taken   *)
(* only at pc = "idle", and a RedrawEventsCleared event walks the closure   *)
(* through rebuild, acquire, encode and submit before it is idle again.    *)
(* Results of the platform calls (recreate_with_dimensions,                *)
(* acquire_next_image, then_execute, then_signal_fence_and_flush)           *)
(* are chosen nondeterministically among the results the code matches on.  *)
(***************************************************************************)
EXTENDS Integers, Sequences, FiniteSets, TLC

\* ------------------------------------------------------------------ bounds
MaxTicks == 3      \* RedrawEventsCleared events handled in one run
MaxExtent == 3     \* surface extents are the <<w, h>> with w + h = MaxExtent
MaxImages == 2     \* a swapchain holds 1..MaxImages images


Extents == {e \in (0..MaxExtent) \X (0..MaxExtent) : e[1] + e[2] = MaxExtent}
ZeroArea(e) == e[1] = 0 \/ e[2] = 0
NoExtent == <<-1, -1>>

VARIABLES
    pc,                 \* position of the event-loop closure
    control_flow,       \* *control_flow
    surface,            \* surface.capabilities(..).min_image_extent
    swapchain,          \* the swapchain object main holds
    framebuffers,       \* one render target per image
    dynamic_state,      \* dynamic_state.viewports
    recreate_swapchain, \* the stale flag
    previous_frame_end, \* Option<Box<dyn GpuFuture>>
    image_num,          \* result of the acquire of this tick
    acquired,           \* generation of the swapchain the acquire ran on
    command_buffer,     \* what encode recorded
    unfinished,         \* the latest submission no fence wait has confirmed
    chain,              \* the future chain the latest step submitted, if any
    nextGen,            \* swapchain objects created so far
    tickNo,             \* RedrawEventsCleared events handled so far
    submitNo,           \* submissions issued so far
    joined,             \* token joined into the latest submission
    submitTicks,        \* the ticks that reached a submission, in order
    tickOps,            \* what the current (or latest) tick has done
    lastOutcome,        \* how the current (or latest) tick ended
    prevOutcome,        \* how the tick before it ended
    resized,            \* size of the latest Resized event not yet followed by a tick
    tickResized,        \* value of resized when the current tick began
    recording           \* whether this run numbers and logs its ticks

vars == <<pc, control_flow, surface, swapchain, framebuffers, dynamic_state,
          recreate_swapchain, previous_frame_end, image_num, acquired,
          command_buffer, unfinished, chain, nextGen, tickNo, submitNo, joined,
          submitTicks, tickOps, lastOutcome, prevOutcome, resized, tickResized,
          recording>>

\* ------------------------------------------------------- completion tokens
NoToken == [kind |-> "none", sub |-> 0, tick |-> 0]
\* sync::now(device): a future that is already satisfied
Now == [kind |-> "now", sub |-> 0, tick |-> 0]
\* the FenceSignalFuture of submission s, issued in tick t
Fence(s, t) == [kind |-> "fence", sub |-> s, tick |-> t]

\* ------------------------------------------------------------ conversions
\* u32 as f32: exact up to 2^24, beyond it rounded to the 24-bit mantissa
\* (ties to even)
RECURSIVE Ulp(_, _)
Ulp(n, u) == IF n < 16777216 * u THEN u ELSE Ulp(n, 2 * u)

AsF32(n) ==
    LET u == Ulp(n, 1)
        q == n \div u
        r == n % u
    IN  IF 2 * r < u THEN q * u
        ELSE IF 2 * r > u THEN (q + 1) * u
        ELSE IF q % 2 = 0 THEN q * u ELSE (q + 1) * u

\* variant: width and height exchanged
ViewportOf_Swapped(dimensions) ==
    [origin |-> <<0, 0>>,
     dimensions |-> <<AsF32(dimensions[2]), AsF32(dimensions[1])>>,
     depth_range |-> <<0, 1>>]

\* Viewport { origin, dimensions, depth_range } built from images[0]
ViewportOf(dimensions) ==
    [origin |-> <<0, 0>>,
     dimensions |-> <<AsF32(dimensions[1]), AsF32(dimensions[2])>>,
     depth_range |-> <<0, 1>>]

\* the images of a swapchain: SwapchainImage handles, index 0..count-1
ImagesOf(sc) ==
    [i \in 1..sc.count |-> [gen |-> sc.gen, index |-> i - 1, dimensions |-> sc.dimensions]]

\* window_size_dependent_setup: the framebuffers it returns
BuildFramebuffers(images) ==
    [i \in 1..Len(images) |-> [gen |-> images[i].gen, image |-> images[i].index]]

\* window_size_dependent_setup: the viewport it stores in dynamic_state
WindowSizeViewports(images) == <<ViewportOf(images[1].dimensions)>>

\* Swapchain::new / recreate_with_dimensions: a fresh swapchain object
NewSwapchain(gen, dimensions, count) ==
    [gen |-> gen, dimensions |-> dimensions, count |-> count, format |-> "format0"]

\* nothing recorded: the command buffer is a local of one tick
NoCommandBuffer == [target |-> [gen |-> 0, image |-> 0], viewports |-> <<>>]

\* ------------------------------------------------------------------- Init
\* main up to event_loop.run: vulkan_init created the swapchain from the
\* surface's minimum image extent, window_size_dependent_setup built the
\* framebuffers and the viewport, and previous_frame_end holds sync::now.
Constructed ==
    \E e \in {x \in Extents : ~ZeroArea(x)}, n \in 1..MaxImages :
        /\ pc = "idle"
        /\ control_flow = "Poll"
        /\ surface = e
        /\ swapchain = NewSwapchain(1, e, n)
        /\ framebuffers = BuildFramebuffers(ImagesOf(NewSwapchain(1, e, n)))
        /\ dynamic_state = [viewports |-> WindowSizeViewports(ImagesOf(NewSwapchain(1, e, n)))]
        /\ recreate_swapchain = FALSE
        /\ previous_frame_end = Now
        /\ image_num = 0
        /\ acquired = 0
        /\ command_buffer = NoCommandBuffer
        /\ unfinished = {}
        /\ chain = <<>>
        /\ nextGen = 1
        /\ tickNo = 0
        /\ submitNo = 0
        /\ joined = NoToken
        /\ submitTicks = <<>>
        /\ tickOps = <<>>
        /\ lastOutcome = "none"
        /\ prevOutcome = "none"
        /\ resized = NoExtent
        /\ tickResized = NoExtent

\* a run that numbers its ticks, submissions and swapchains and logs what
\* each tick did
Init == Constructed /\ recording = TRUE

\* a run that keeps no log: ticks never run out and the state space stays
\* finite
LiveInit == Constructed /\ recording = FALSE

\* the new value of a log variable: logs are written only in a numbered run
Kept(new, old) == IF recording THEN new ELSE old

program == <<swapchain, framebuffers, dynamic_state, recreate_swapchain,
             previous_frame_end, image_num, acquired, command_buffer,
             unfinished>>
history == <<nextGen, tickNo, submitNo, joined, submitTicks, tickOps, lastOutcome,
             prevOutcome, resized, tickResized>>

\* ------------------------------------------------------- window system
\* the window system changes the surface; the program sees it only through
\* the capabilities query of the rebuild
SurfaceChange ==
    /\ pc = "idle"
    /\ \E e \in Extents : e # surface /\ surface' = e
    /\ chain' = <<>>
    /\ UNCHANGED <<recording, pc, control_flow, program, history>>

\* Event::WindowEvent { event: WindowEvent::CloseRequested, .. }
CloseRequested ==
    /\ pc = "idle"
    /\ control_flow = "Poll"
    /\ control_flow' = "Exit"
    /\ chain' = <<>>
    /\ UNCHANGED <<recording, pc, surface, program, history>>

\* the loop stops once control_flow is Exit and the closure has returned
LoopDestroyed ==
    /\ pc = "idle"
    /\ control_flow = "Exit"
    /\ pc' = "exited"
    /\ chain' = <<>>
    /\ UNCHANGED <<recording, control_flow, surface, program, history>>

\* variant: the handler rebuilds the swapchain for the new size on the spot
Resized_Rebuilds ==
    /\ pc = "idle"
    /\ \E size \in Extents :
        /\ resized' = Kept(size, resized)
        /\ swapchain' = NewSwapchain(nextGen + 1, size, swapchain.count)
        /\ framebuffers' = BuildFramebuffers(ImagesOf(swapchain'))
        /\ dynamic_state' = [viewports |-> WindowSizeViewports(ImagesOf(swapchain'))]
    /\ nextGen' = Kept(nextGen + 1, nextGen)
    /\ recreate_swapchain' = FALSE
    /\ chain' = <<>>
    /\ UNCHANGED <<recording, pc, control_flow, surface, previous_frame_end,
                   image_num, acquired, command_buffer, unfinished, tickNo,
                   submitNo, joined, submitTicks, tickOps, lastOutcome,
                   prevOutcome, tickResized>>

\* Event::WindowEvent { event: WindowEvent::Resized(_), .. }
Resized ==
    /\ pc = "idle"
    /\ \E size \in Extents : resized' = Kept(size, resized)
    /\ recreate_swapchain' = TRUE
    /\ chain' = <<>>
    /\ UNCHANGED <<recording, pc, control_flow, surface, swapchain,
                   framebuffers, dynamic_state, previous_frame_end,
                   image_num, acquired, command_buffer, unfinished, nextGen,
                   tickNo, submitNo, joined, submitTicks, tickOps,
                   lastOutcome, prevOutcome, tickResized>>

\* ------------------------------------------------- RedrawEventsCleared
\* variant: the tick goes straight to the acquire whatever the flag says
AfterCleanup_SkipsRebuild(flag) == "acquire"

\* where the closure goes after cleanup_finished
AfterCleanup(flag) == IF flag THEN "rebuild" ELSE "acquire"

\* entry of the tick: previous_frame_end.as_mut().unwrap().cleanup_finished()
RedrawEventsCleared ==
    /\ pc = "idle"
    /\ tickNo < MaxTicks
    /\ tickNo' = Kept(tickNo + 1, tickNo)
    /\ prevOutcome' = Kept(lastOutcome, prevOutcome)
    /\ tickResized' = Kept(resized, tickResized)
    /\ resized' = Kept(NoExtent, resized)
    /\ IF previous_frame_end = NoToken
       THEN /\ pc' = "panicked"
            /\ tickOps' = Kept(<<>>, tickOps)
            /\ lastOutcome' = Kept("panic", lastOutcome)
       ELSE /\ pc' = AfterCleanup(recreate_swapchain)
            /\ tickOps' = Kept(<<"cleanup">>, tickOps)
            /\ lastOutcome' = Kept("running", lastOutcome)
    /\ chain' = <<>>
    /\ UNCHANGED <<recording, control_flow, surface, swapchain, framebuffers,
                   dynamic_state, recreate_swapchain, previous_frame_end,
                   image_num, acquired, command_buffer, unfinished, nextGen,
                   submitNo, joined, submitTicks>>

\* the closure returns: its locals are gone
TickReturns ==
    /\ pc' = "idle"
    /\ tickResized' = Kept(NoExtent, tickResized)

\* variant: the rebuild reuses the extent of the swapchain it replaces
RebuildDimensions_Stale == swapchain.dimensions

\* the dimensions the rebuild asks for: the surface's min_image_extent
RebuildDimensions == surface

\* variant: the new swapchain is installed but the framebuffers and the
\* viewport of the old one are kept
RebuildOk_KeepsTargets ==
    /\ pc = "rebuild"
    /\ ~ZeroArea(RebuildDimensions)
    /\ \E n \in swapchain.count..MaxImages :
        swapchain' = NewSwapchain(nextGen + 1, RebuildDimensions, n)
    /\ nextGen' = Kept(nextGen + 1, nextGen)
    /\ recreate_swapchain' = FALSE
    /\ tickOps' = Kept(tickOps \o <<"recreate", "setup">>, tickOps)
    /\ pc' = "acquire"
    /\ chain' = <<>>
    /\ UNCHANGED <<recording, control_flow, surface, framebuffers,
                   dynamic_state, previous_frame_end, image_num, acquired,
                   command_buffer, unfinished, tickNo, submitNo, joined,
                   submitTicks, lastOutcome, prevOutcome, resized,
                   tickResized>>

\* recreate_with_dimensions returned Ok: the new swapchain replaces the old,
\* the framebuffers and the viewport are rebuilt, the flag is cleared
RebuildOk ==
    /\ pc = "rebuild"
    /\ ~ZeroArea(RebuildDimensions)
    /\ \E n \in swapchain.count..MaxImages :
        LET new_swapchain == NewSwapchain(nextGen + 1, RebuildDimensions, n)
            new_images == ImagesOf(new_swapchain)
        IN  /\ swapchain' = new_swapchain
            /\ framebuffers' = BuildFramebuffers(new_images)
            /\ dynamic_state' = [viewports |-> WindowSizeViewports(new_images)]
    /\ nextGen' = Kept(nextGen + 1, nextGen)
    /\ recreate_swapchain' = FALSE
    /\ tickOps' = Kept(tickOps \o <<"recreate", "setup">>, tickOps)
    /\ pc' = "acquire"
    /\ chain' = <<>>
    /\ UNCHANGED <<recording, control_flow, surface, previous_frame_end,
                   image_num, acquired, command_buffer, unfinished, tickNo,
                   submitNo, joined, submitTicks, lastOutcome, prevOutcome,
                   resized, tickResized>>

\* variant: the Unsupported arm does not return and the tick goes on to acquire
RebuildUnsupported_FallsThrough ==
    /\ pc = "rebuild"
    /\ tickOps' = Kept(Append(tickOps, "recreate"), tickOps)
    /\ lastOutcome' = Kept(lastOutcome, lastOutcome)
    /\ pc' = "acquire"
    /\ chain' = <<>>
    /\ UNCHANGED <<recording, control_flow, surface, program, nextGen,
                   tickNo, submitNo, joined, submitTicks, prevOutcome,
                   resized, tickResized>>

\* variant: the Unsupported arm clears the flag before it returns
RebuildUnsupported_ClearsFlag ==
    /\ pc = "rebuild"
    /\ recreate_swapchain' = FALSE
    /\ tickOps' = Kept(Append(tickOps, "recreate"), tickOps)
    /\ lastOutcome' = Kept("unsupported", lastOutcome)
    /\ TickReturns
    /\ chain' = <<>>
    /\ UNCHANGED <<recording, control_flow, surface, swapchain, framebuffers,
                   dynamic_state, previous_frame_end, image_num, acquired,
                   command_buffer, unfinished, nextGen, tickNo, submitNo,
                   joined, submitTicks, prevOutcome, resized>>

\* Err(SwapchainCreationError::UnsupportedDimensions) => return
RebuildUnsupported ==
    /\ pc = "rebuild"
    /\ tickOps' = Kept(Append(tickOps, "recreate"), tickOps)
    /\ lastOutcome' = Kept("unsupported", lastOutcome)
    /\ TickReturns
    /\ chain' = <<>>
    /\ UNCHANGED <<recording, control_flow, surface, program, nextGen,
                   tickNo, submitNo, joined, submitTicks, prevOutcome,
                   resized>>

\* variant: the failing rebuild has already installed a new swapchain, without
\* its framebuffers, when it panics
RebuildFatal_PartialInstall ==
    /\ pc = "rebuild"
    /\ swapchain' = NewSwapchain(nextGen + 1, RebuildDimensions, swapchain.count)
    /\ tickOps' = Kept(Append(tickOps, "recreate"), tickOps)
    /\ lastOutcome' = Kept("panic", lastOutcome)
    /\ pc' = "panicked"
    /\ chain' = <<>>
    /\ UNCHANGED <<recording, control_flow, surface, framebuffers,
                   dynamic_state, recreate_swapchain, previous_frame_end,
                   image_num, acquired, command_buffer, unfinished, nextGen,
                   tickNo, submitNo, joined, submitTicks, prevOutcome,
                   resized, tickResized>>

\* Err(e) => panic!("Failed to recreate swapchain: {:?}", e)
RebuildFatal ==
    /\ pc = "rebuild"
    /\ tickOps' = Kept(Append(tickOps, "recreate"), tickOps)
    /\ lastOutcome' = Kept("panic", lastOutcome)
    /\ pc' = "panicked"
    /\ chain' = <<>>
    /\ UNCHANGED <<recording, control_flow, surface, program, nextGen,
                   tickNo, submitNo, joined, submitTicks, prevOutcome,
                   resized, tickResized>>

\* acquire_next_image returned Ok((image_num, suboptimal, acquire_future))
AcquireOk ==
    /\ pc = "acquire"
    /\ \E i \in 0..(swapchain.count - 1), suboptimal \in BOOLEAN :
        /\ image_num' = i
        /\ recreate_swapchain' = suboptimal
    /\ acquired' = swapchain.gen
    /\ tickOps' = Kept(Append(tickOps, "acquire"), tickOps)
    /\ pc' = "encode"
    /\ chain' = <<>>
    /\ UNCHANGED <<recording, control_flow, surface, swapchain, framebuffers,
                   dynamic_state, previous_frame_end, command_buffer,
                   unfinished, nextGen, tickNo, submitNo, joined,
                   submitTicks, lastOutcome, prevOutcome, resized,
                   tickResized>>

\* variant: the out-of-date arm returns without setting the flag
AcquireOutOfDate_NoFlag ==
    /\ pc = "acquire"
    /\ tickOps' = Kept(Append(tickOps, "acquire"), tickOps)
    /\ lastOutcome' = Kept("acquire_out_of_date", lastOutcome)
    /\ TickReturns
    /\ chain' = <<>>
    /\ UNCHANGED <<recording, control_flow, surface, program, nextGen,
                   tickNo, submitNo, joined, submitTicks, prevOutcome,
                   resized>>

\* variant: the out-of-date arm puts a fresh sync::now in the slot
AcquireOutOfDate_ResetsToken ==
    /\ pc = "acquire"
    /\ recreate_swapchain' = TRUE
    /\ previous_frame_end' = Now
    /\ tickOps' = Kept(Append(tickOps, "acquire"), tickOps)
    /\ lastOutcome' = Kept("acquire_out_of_date", lastOutcome)
    /\ TickReturns
    /\ chain' = <<>>
    /\ UNCHANGED <<recording, control_flow, surface, swapchain, framebuffers,
                   dynamic_state, image_num, acquired, command_buffer,
                   unfinished, nextGen, tickNo, submitNo, joined,
                   submitTicks, prevOutcome, resized>>

\* Err(AcquireError::OutOfDate) => { recreate_swapchain = true; return; }
AcquireOutOfDate ==
    /\ pc = "acquire"
    /\ recreate_swapchain' = TRUE
    /\ tickOps' = Kept(Append(tickOps, "acquire"), tickOps)
    /\ lastOutcome' = Kept("acquire_out_of_date", lastOutcome)
    /\ TickReturns
    /\ chain' = <<>>
    /\ UNCHANGED <<recording, control_flow, surface, swapchain, framebuffers,
                   dynamic_state, previous_frame_end, image_num, acquired,
                   command_buffer, unfinished, nextGen, tickNo, submitNo,
                   joined, submitTicks, prevOutcome, resized>>

\* Err(e) => panic!("Failed to acquire next image: {:?}", e)
AcquireFatal ==
    /\ pc = "acquire"
    /\ tickOps' = Kept(Append(tickOps, "acquire"), tickOps)
    /\ lastOutcome' = Kept("panic", lastOutcome)
    /\ pc' = "panicked"
    /\ chain' = <<>>
    /\ UNCHANGED <<recording, control_flow, surface, program, nextGen,
                   tickNo, submitNo, joined, submitTicks, prevOutcome,
                   resized, tickResized>>

\* variant: the closure returns after recording, before the submission
Encode_ReturnsEarly ==
    /\ pc = "encode"
    /\ tickOps' = Kept(Append(tickOps, "encode"), tickOps)
    /\ lastOutcome' = Kept("presented", lastOutcome)
    /\ TickReturns
    /\ image_num' = 0
    /\ acquired' = 0
    /\ chain' = <<>>
    /\ UNCHANGED <<recording, control_flow, surface, swapchain, framebuffers,
                   dynamic_state, recreate_swapchain, previous_frame_end,
                   command_buffer, unfinished, nextGen, tickNo, submitNo,
                   joined, submitTicks, prevOutcome, resized>>

\* uniform sub-buffer, descriptor set and command buffer: the render pass
\* begins on framebuffers[image_num] and the draw uses dynamic_state
Encode ==
    /\ pc = "encode"
    /\ IF image_num + 1 \in DOMAIN framebuffers
       THEN /\ command_buffer' = [target |-> framebuffers[image_num + 1],
                                  viewports |-> dynamic_state.viewports]
            /\ tickOps' = Kept(Append(tickOps, "encode"), tickOps)
            /\ lastOutcome' = Kept(lastOutcome, lastOutcome)
            /\ pc' = "submit"
       ELSE /\ command_buffer' = command_buffer
            /\ tickOps' = Kept(tickOps, tickOps)
            /\ lastOutcome' = Kept("panic", lastOutcome)
            /\ pc' = "panicked"
    /\ chain' = <<>>
    /\ UNCHANGED <<recording, control_flow, surface, swapchain, framebuffers,
                   dynamic_state, recreate_swapchain, previous_frame_end,
                   image_num, acquired, unfinished, nextGen, tickNo,
                   submitNo, joined, submitTicks, prevOutcome, resized,
                   tickResized>>

\* one of the unwraps of the encode step fails (uniform_buffer.next,
\* descriptor set, command buffer builder)
EncodeFatal ==
    /\ pc = "encode"
    /\ lastOutcome' = Kept("panic", lastOutcome)
    /\ pc' = "panicked"
    /\ chain' = <<>>
    /\ UNCHANGED <<recording, control_flow, surface, program, nextGen,
                   tickNo, submitNo, joined, submitTicks, tickOps,
                   prevOutcome, resized, tickResized>>

\* ------------------------------------------------------ submit and present
\* previous_frame_end.take().unwrap().join(acquire_future): the slot is
\* emptied and its token becomes a dependency of this submission
SubmitBegins ==
    /\ pc = "submit"
    /\ previous_frame_end # NoToken
    /\ joined' = Kept(previous_frame_end, joined)
    /\ submitNo' = Kept(submitNo + 1, submitNo)
    /\ submitTicks' = Kept(Append(submitTicks, tickNo), submitTicks)

\* the acquire_future of image img of swapchain generation gen
AcquireFuture(gen, img) == [kind |-> "acquire", gen |-> gen, image |-> img]

\* variant: the present request is chained before the execution
SubmissionChain_PresentFirst(prev, acq, cb, gen, img) ==
    <<[stage |-> "join", of |-> <<prev, acq>>],
      [stage |-> "present", gen |-> gen, image |-> img],
      [stage |-> "execute", target |-> cb.target],
      [stage |-> "signal_fence"]>>

\* previous.join(acquire_future).then_execute(queue, command_buffer)
\*     .then_swapchain_present(queue, swapchain, image_num)
\*     .then_signal_fence_and_flush(): each stage waits for the one before it
SubmissionChain(prev, acq, cb, gen, img) ==
    <<[stage |-> "join", of |-> <<prev, acq>>],
      [stage |-> "execute", target |-> cb.target],
      [stage |-> "present", gen |-> gen, image |-> img],
      [stage |-> "signal_fence"]>>

\* the token the slot holds after each arm of `match future`
\* variant: the Ok arm leaves the slot empty
TokenAfterFlushOk_Drops(old, new) == NoToken
TokenAfterFlushOk(old, new) == new
\* variant: the slot gets back the token that was taken
TokenAfterOutOfDate_Keeps(old) == old
TokenAfterOutOfDate(old) == Now
\* variant: the slot gets back the token that was taken
TokenAfterFlushError_Keeps(old) == old
TokenAfterFlushError(old) == Now

\* let _ = future.wait(None): the result of the wait is discarded, so the
\* frame counts as finished only when the wait returned Ok. A fence that
\* signalled covers every earlier submission to the queue, so a wait that
\* returned Ok leaves nothing unfinished; after one that did not, the set
\* names the latest such submission.
UnfinishedAfterWait(set, sub, waited) == IF waited THEN {} ELSE {sub}

\* the flag after each arm of `match future`
\* variant: a flush that succeeded clears the flag
FlagAfterFlushOk_Clears(flag) == FALSE
FlagAfterFlushOk(flag) == flag
\* variant: the out-of-date arm leaves the flag alone
FlagAfterOutOfDate_Unchanged(flag) == flag
FlagAfterOutOfDate(flag) == TRUE
FlagAfterFlushError(flag) == flag

\* then_execute(queue, command_buffer).unwrap() on an Err
SubmitExecuteFails ==
    /\ SubmitBegins
    /\ chain' = SubSeq(SubmissionChain(previous_frame_end, AcquireFuture(acquired, image_num),
                           command_buffer, swapchain.gen, image_num), 1, 1)
    /\ previous_frame_end' = NoToken
    /\ tickOps' = Kept(Append(tickOps, "execute"), tickOps)
    /\ lastOutcome' = Kept("execute_error", lastOutcome)
    /\ pc' = "panicked"
    /\ UNCHANGED <<recording, control_flow, surface, swapchain, framebuffers,
                   dynamic_state, recreate_swapchain, image_num, acquired,
                   command_buffer, unfinished, nextGen, tickNo, prevOutcome,
                   resized, tickResized>>

\* Ok(future) => { let _ = future.wait(None); previous_frame_end = Some(future) }
SubmitFlushOk ==
    /\ SubmitBegins
    /\ chain' = SubmissionChain(previous_frame_end, AcquireFuture(acquired, image_num),
                           command_buffer, swapchain.gen, image_num)
    /\ previous_frame_end' =
           TokenAfterFlushOk(previous_frame_end, Fence(submitNo + 1, tickNo))
    /\ recreate_swapchain' = FlagAfterFlushOk(recreate_swapchain)
    /\ \E waited \in BOOLEAN :
           unfinished' = UnfinishedAfterWait(unfinished, submitNo + 1,
                                          waited)
    /\ tickOps' = Kept(tickOps \o <<"execute", "present", "flush", "wait">>, tickOps)
    /\ lastOutcome' = Kept("presented", lastOutcome)
    /\ TickReturns
    /\ image_num' = 0
    /\ acquired' = 0
    /\ command_buffer' = NoCommandBuffer
    /\ UNCHANGED <<recording, control_flow, surface, swapchain, framebuffers,
                   dynamic_state, nextGen, tickNo, prevOutcome, resized>>

\* Err(FlushError::OutOfDate) => { recreate_swapchain = true; sync::now }
SubmitFlushOutOfDate ==
    /\ SubmitBegins
    /\ chain' = SubmissionChain(previous_frame_end, AcquireFuture(acquired, image_num),
                           command_buffer, swapchain.gen, image_num)
    /\ previous_frame_end' = TokenAfterOutOfDate(previous_frame_end)
    /\ recreate_swapchain' = FlagAfterOutOfDate(recreate_swapchain)
    /\ tickOps' = Kept(tickOps \o <<"execute", "present", "flush">>, tickOps)
    /\ lastOutcome' = Kept("flush_out_of_date", lastOutcome)
    /\ TickReturns
    /\ image_num' = 0
    /\ acquired' = 0
    /\ command_buffer' = NoCommandBuffer
    /\ UNCHANGED <<recording, control_flow, surface, swapchain, framebuffers,
                   dynamic_state, unfinished, nextGen, tickNo, prevOutcome,
                   resized>>

\* Err(e) => { println!("Failed to flush future: {:?}", e); sync::now }
SubmitFlushError ==
    /\ SubmitBegins
    /\ chain' = SubmissionChain(previous_frame_end, AcquireFuture(acquired, image_num),
                           command_buffer, swapchain.gen, image_num)
    /\ previous_frame_end' = TokenAfterFlushError(previous_frame_end)
    /\ recreate_swapchain' = FlagAfterFlushError(recreate_swapchain)
    /\ tickOps' = Kept(tickOps \o <<"execute", "present", "flush", "println">>, tickOps)
    /\ lastOutcome' = Kept("flush_error", lastOutcome)
    /\ TickReturns
    /\ image_num' = 0
    /\ acquired' = 0
    /\ command_buffer' = NoCommandBuffer
    /\ UNCHANGED <<recording, control_flow, surface, swapchain, framebuffers,
                   dynamic_state, unfinished, nextGen, tickNo, prevOutcome,
                   resized>>

\* ------------------------------------------------------------ specification
Next ==
    \/ SurfaceChange
    \/ CloseRequested
    \/ LoopDestroyed
    \/ Resized
    \/ RedrawEventsCleared
    \/ RebuildOk
    \/ RebuildUnsupported
    \/ RebuildFatal
    \/ AcquireOk
    \/ AcquireOutOfDate
    \/ AcquireFatal
    \/ Encode
    \/ EncodeFatal
    \/ SubmitExecuteFails
    \/ SubmitFlushOk
    \/ SubmitFlushOutOfDate
    \/ SubmitFlushError

Spec == Init /\ [][Next]_vars

TypeOK ==
    /\ recording \in BOOLEAN
    /\ pc \in {"idle", "rebuild", "acquire", "encode", "submit", "panicked", "exited"}
    /\ control_flow \in {"Poll", "Exit"}
    /\ recreate_swapchain \in BOOLEAN
    /\ surface \in Extents
    /\ previous_frame_end.kind \in {"none", "now", "fence"}

\* the loop runs on: ticks keep being delivered, every call the closure makes
\* returns, and the surface does not answer every rebuild with
\* UnsupportedDimensions for ever
Fairness ==
    /\ WF_vars(RedrawEventsCleared)
    /\ WF_vars(RebuildOk \/ RebuildUnsupported \/ RebuildFatal)
    /\ WF_vars(AcquireOk \/ AcquireOutOfDate \/ AcquireFatal)
    /\ WF_vars(Encode \/ EncodeFatal)
    /\ WF_vars(SubmitExecuteFails \/ SubmitFlushOk \/ SubmitFlushOutOfDate
                   \/ SubmitFlushError)
    /\ SF_vars(RebuildOk \/ RebuildFatal)

LiveSpec == LiveInit /\ [][Next]_vars /\ Fairness

\* ------------------------------------------------------------------ claims
Done(op) == \E i \in DOMAIN tickOps : tickOps[i] = op
Before(op1, op2) ==
    \E i, j \in DOMAIN tickOps : i < j /\ tickOps[i] = op1 /\ tickOps[j] = op2
\* the latest tick got as far as its submission
ReachedSubmission ==
    lastOutcome \in {"presented", "flush_out_of_date", "flush_error", "execute_error"}

\* C1: the render targets are exactly one per image of the current
\* swapchain, in image order and of its generation; a tick that encodes finds
\* framebuffers[image_num], and the target it records is the one of the
\* acquired image on the swapchain generation the acquire ran on.
C1_TargetOfAcquiredGeneration ==
    /\ Len(framebuffers) = swapchain.count
    /\ \A i \in DOMAIN framebuffers :
           framebuffers[i] = [gen |-> swapchain.gen, image |-> i - 1]
    /\ pc \in {"encode", "submit"} =>
           /\ acquired = swapchain.gen
           /\ image_num + 1 \in DOMAIN framebuffers
           /\ framebuffers[image_num + 1].gen = acquired
    /\ pc = "submit" =>
           command_buffer.target = [gen |-> acquired, image |-> image_num]

\* a tick encoded on image 1 of a rebuilt swapchain, after a tick that failed
C1_Witness ==
    /\ pc = "submit"
    /\ acquired >= 2
    /\ image_num = 1
    /\ Done("recreate")
    /\ prevOutcome \in {"unsupported", "acquire_out_of_date", "flush_out_of_date"}

\* C2: the token joined into submission N is the already-satisfied token or
\* the fence token of submission N-1.
C2_JoinedIsNowOrPrevious ==
    submitNo >= 1 =>
        \/ joined = Now
        \/ joined.kind = "fence" /\ joined.sub = submitNo - 1

\* the third submission joined the fence of the second
C2_Witness ==
    /\ submitNo >= 3
    /\ joined.kind = "fence"
    /\ joined.sub = submitNo - 1

\* C3 as stated: counting every tick, the token joined in tick T is
\* already satisfied or was produced in tick T-1.
C3_JoinedFromPreviousTick ==
    ReachedSubmission =>
        \/ joined = Now
        \/ joined.kind = "fence" /\ joined.tick = tickNo - 1

\* C3 amended: the token joined in tick T is already satisfied or was
\* produced by the latest earlier tick that reached a submission; the ticks
\* between that one and T issued no submission.
C3_JoinedFromLatestSubmittingTick ==
    ReachedSubmission =>
        /\ Len(submitTicks) >= 1
        /\ submitTicks[Len(submitTicks)] = tickNo
        /\ \/ joined = Now
           \/ /\ joined.kind = "fence"
              /\ Len(submitTicks) >= 2
              /\ joined.tick = submitTicks[Len(submitTicks) - 1]
              /\ joined.tick < tickNo

\* a submission joined a token from two ticks back, the tick between aborted
C3_Witness ==
    /\ ReachedSubmission
    /\ joined.kind = "fence"
    /\ joined.tick = tickNo - 2
    /\ prevOutcome \in {"unsupported", "acquire_out_of_date"}

\* C4: the flag goes from true to false only in the step in which a rebuild
\* succeeds, and the acquire always starts with the flag false, so
\* `recreate_swapchain = suboptimal` never clears a set flag.
C4_ClearedOnlyByRebuild ==
    /\ [](pc = "acquire" => ~recreate_swapchain)
    /\ [][(recreate_swapchain /\ ~recreate_swapchain') =>
             /\ pc = "rebuild"
             /\ pc' = "acquire"
             /\ swapchain'.gen = swapchain.gen + 1]_vars

\* the flag set in an earlier tick is still set after an Unsupported rebuild
C4_Witness ==
    /\ pc = "idle"
    /\ recreate_swapchain
    /\ lastOutcome = "unsupported"
    /\ prevOutcome \in {"presented", "acquire_out_of_date", "flush_out_of_date"}

\* C5 as stated: the tick after a Resized event has the swapchain and the
\* viewport at the size the event carried by the time it acquires.
C5_RebuiltToResizedSize ==
    (tickResized # NoExtent /\ (pc = "acquire" \/ Done("acquire"))) =>
        /\ swapchain.dimensions = tickResized
        /\ dynamic_state.viewports =
               <<[origin |-> <<0, 0>>, dimensions |-> tickResized,
                  depth_range |-> <<0, 1>>]>>

\* C5 amended: the tick after a Resized event attempts a rebuild before any
\* acquire, asking for the surface's current minimum image extent; when it
\* gets to the acquire the swapchain and the viewport have that extent, with
\* depth range [0,1]; when the rebuild does not succeed no acquire is issued.
C5_RebuiltToSurfaceExtent ==
    (tickResized # NoExtent /\ tickOps # <<>>) =>
        /\ pc # "rebuild" => Done("recreate")
        /\ Done("acquire") => Before("setup", "acquire")
        /\ pc \in {"acquire", "encode", "submit"} =>
               /\ Before("recreate", "setup")
               /\ swapchain.dimensions = surface
               /\ dynamic_state.viewports =
                      <<[origin |-> <<0, 0>>, dimensions |-> surface,
                         depth_range |-> <<0, 1>>]>>

\* the event carried one size, the surface reports another, and the tick
\* rebuilt to what the surface reports
C5_Witness ==
    /\ pc = "acquire"
    /\ tickResized # NoExtent
    /\ tickResized # surface
    /\ swapchain.gen >= 2
    /\ swapchain.dimensions = surface

\* C6: the viewport always has the width and height of the current
\* swapchain's images and depth range [0,1], and it changes only in the step
\* in which a rebuild succeeds.
C6_ViewportOfCurrentSwapchain ==
    /\ [](dynamic_state.viewports =
              <<[origin |-> <<0, 0>>, dimensions |-> swapchain.dimensions,
                 depth_range |-> <<0, 1>>]>>)
    /\ [][dynamic_state' # dynamic_state =>
             (pc = "rebuild" /\ swapchain'.gen = swapchain.gen + 1)]_vars

\* a second rebuild changed the extent and the viewport followed
C6_Witness ==
    /\ swapchain.gen >= 3
    /\ swapchain.dimensions[1] < swapchain.dimensions[2]
    /\ dynamic_state.viewports[1].dimensions = swapchain.dimensions
    /\ pc = "submit"

\* C7: a tick whose acquire is out of date has encoded, submitted and
\* presented nothing and leaves the flag set; the tick after it attempts a
\* rebuild before its acquire.
C7_AcquireOutOfDateAborts ==
    /\ lastOutcome = "acquire_out_of_date" =>
           /\ pc \in {"idle", "exited"}
           /\ recreate_swapchain
           /\ ~Done("encode") /\ ~Done("execute") /\ ~Done("present")
           /\ ~Done("flush")
    /\ (prevOutcome = "acquire_out_of_date" /\ tickOps # <<>>) =>
           /\ pc # "rebuild" => Done("recreate")
           /\ Done("acquire") => Before("recreate", "acquire")

\* the tick after an out-of-date acquire rebuilt and acquired again
C7_Witness ==
    /\ prevOutcome = "acquire_out_of_date"
    /\ pc = "encode"
    /\ Before("recreate", "acquire")

\* C8: after a flush failure the slot holds the already-satisfied token, the
\* flag is set when the failure was out-of-date, and a submission in the
\* next tick joins the already-satisfied token.
C8_FlushFailureResetsToken ==
    /\ lastOutcome \in {"flush_out_of_date", "flush_error"} =>
           previous_frame_end = Now
    /\ lastOutcome = "flush_out_of_date" => recreate_swapchain
    /\ (prevOutcome \in {"flush_out_of_date", "flush_error"} /\ ReachedSubmission) =>
           joined = Now

\* a tick submitted right after a tick whose flush failed, a fence existing
C8_Witness ==
    /\ prevOutcome \in {"flush_out_of_date", "flush_error"}
    /\ lastOutcome = "presented"
    /\ submitNo >= 3

\* C9: an error of any step of submit-and-present other than out-of-date is
\* not fatal: the process is still running after it.
C9_SubmitErrorsNotFatal ==
    lastOutcome \in {"execute_error", "flush_error"} => pc # "panicked"

\* C10: a rebuild that returns Unsupported ends the tick with no acquire and
\* no submission, the flag still set and the process alive, and leaves the
\* swapchain, the render targets and the viewport as they were.
C10_UnsupportedLeavesState ==
    /\ [](lastOutcome = "unsupported" =>
              /\ pc \in {"idle", "exited"}
              /\ recreate_swapchain
              /\ tickOps = <<"cleanup", "recreate">>)
    /\ [][(pc = "rebuild" /\ pc' = "idle") =>
              /\ lastOutcome' = "unsupported"
              /\ recreate_swapchain /\ recreate_swapchain'
              /\ UNCHANGED <<swapchain, framebuffers, dynamic_state,
                             previous_frame_end, submitNo>>]_vars

\* a zero-width surface made the rebuild Unsupported in a later tick
C10_Witness ==
    /\ lastOutcome = "unsupported"
    /\ pc = "idle"
    /\ ZeroArea(surface)
    /\ tickNo >= 2
    /\ submitNo >= 1

\* C11: when a tick starts (and so before it allocates its uniform
\* sub-buffer and encodes) the GPU work of every frame submitted before it
\* has completed.
C11_PreviousFramesComplete ==
    pc \in {"rebuild", "acquire", "encode", "submit"} => unfinished = {}

CountIn(ops, op) == Cardinality({i \in DOMAIN ops : ops[i] = op})
\* the step in which a tick whose acquire succeeded stops encoding/submitting
LeavesAcquiredTick == pc \in {"encode", "submit"} /\ pc' \notin {"encode", "submit"}

C13_NoTickAfterShutdown ==
    [][control_flow = "Exit" =>
          /\ tickNo' = tickNo
          /\ submitNo' = submitNo
          /\ pc' \in {"idle", "exited"}]_vars

\* the process or the loop has ended
Stopped == pc \in {"panicked", "exited"}
\* a rebuild has just succeeded: the flag is clear and the acquire is next
JustRebuilt == pc = "acquire" /\ ~recreate_swapchain

\* C14: while ticks keep coming and Unsupported does not persist for ever, a
\* set flag leads to a successful rebuild, which is followed by an acquire
\* attempt on the new swapchain; every rebuild attempt returns.
C14_StaleLeadsToRebuild ==
    /\ recreate_swapchain ~> (JustRebuilt \/ Stopped)
    /\ JustRebuilt ~> (pc \in {"encode", "idle", "panicked"})
    /\ (pc = "rebuild") ~> (pc # "rebuild")
    /\ [][pc = "rebuild" /\ pc' = "idle" => recreate_swapchain']_vars

\* a rebuild has replaced the initial swapchain and cleared the flag
C14_Witness ==
    /\ JustRebuilt
    /\ swapchain.gen > 1
    /\ framebuffers = BuildFramebuffers(ImagesOf(swapchain))

C16_SuboptimalDefersRebuild ==
    /\ [][(pc \in {"encode", "submit"} /\ recreate_swapchain)
            => /\ UNCHANGED <<swapchain, framebuffers, dynamic_state>>
               /\ recreate_swapchain'
               /\ pc' \in {"submit", "idle", "panicked"}
               /\ acquired = swapchain.gen
               /\ (pc' = "submit" =>
                      command_buffer' = [target |-> framebuffers[image_num + 1],
                                         viewports |-> dynamic_state.viewports])
               /\ (pc' = "idle" =>
                      /\ Len(chain') = 4
                      /\ chain'[2].target = framebuffers[image_num + 1]
                      /\ chain'[3] = [stage |-> "present", gen |-> swapchain.gen,
                                      image |-> image_num])]_vars
    /\ [][(pc = "idle" /\ recreate_swapchain /\ tickNo' # tickNo)
            => pc' = "rebuild"]_vars
    /\ [][pc' = "acquire" /\ tickNo' = tickNo => pc = "rebuild"]_vars

\* the tick after a frame presented from a suboptimal acquire, with no resize
\* event in between, is at its rebuild
C16_Witness ==
    /\ pc = "rebuild"
    /\ prevOutcome = "presented"
    /\ tickResized = NoExtent
    /\ Len(submitTicks) >= 1
    /\ submitTicks[Len(submitTicks)] = tickNo - 1

\* the stages of a chain, in order
StagesOf(c) == [i \in DOMAIN c |-> c[i].stage]

\* C17: the submission of a tick is one chain in this order: the join of the
\* token taken from the slot with the acquire future of this tick's image,
\* then the execution of the recorded commands, then the present of the
\* acquired image on the current swapchain, then the fence signal that becomes
\* the new token; when the execution fails nothing after the join is chained.
C17_SubmissionIsOrderedChain ==
    /\ [][(pc = "submit" /\ pc' = "idle")
            => /\ StagesOf(chain') = <<"join", "execute", "present", "signal_fence">>
               /\ previous_frame_end # NoToken
               /\ chain'[1].of = <<previous_frame_end,
                                   [kind |-> "acquire", gen |-> swapchain.gen,
                                    image |-> image_num]>>
               /\ chain'[2].target = command_buffer.target
               /\ chain'[2].target = [gen |-> swapchain.gen, image |-> image_num]
               /\ chain'[3].gen = swapchain.gen /\ chain'[3].image = image_num
               /\ (previous_frame_end'.kind = "fence"
                      => previous_frame_end' # previous_frame_end)]_vars
    /\ [][(pc = "submit" /\ pc' = "panicked")
            => StagesOf(chain') = <<"join">>]_vars
    /\ [][(chain' # chain /\ chain' # <<>>) => pc = "submit"]_vars

\* a frame has been submitted behind the fence of the frame before it
C17_Witness ==
    /\ pc = "idle"
    /\ Len(chain) = 4
    /\ chain[1].of[1].kind = "fence"
    /\ previous_frame_end.kind = "fence"
    /\ previous_frame_end # chain[1].of[1]

\* C18: a Resized event is handled between ticks only, and handling it does
\* nothing but set the flag: swapchain, render targets, viewport and token
\* stay as they are, and no rebuild, acquire, submission or present is issued.
C18_ResizedOnlySetsFlag ==
    [][(resized' # resized /\ resized' # NoExtent)
         => /\ pc = "idle" /\ pc' = "idle"
            /\ recreate_swapchain'
            /\ UNCHANGED <<swapchain, framebuffers, dynamic_state,
                           previous_frame_end, image_num, acquired,
                           command_buffer, unfinished, control_flow,
                           nextGen, submitNo, tickNo, tickOps>>
            /\ chain' = <<>>]_vars

\* a resize to a size other than the swapchain's has been handled after a
\* presented frame
C18_Witness ==
    /\ pc = "idle"
    /\ resized # NoExtent
    /\ resized # swapchain.dimensions
    /\ recreate_swapchain
    /\ lastOutcome = "presented"
    /\ previous_frame_end.kind = "fence"
    /\ framebuffers = BuildFramebuffers(ImagesOf(swapchain))

\* C19: the slot holds a token whenever the process is alive outside the
\* submit step itself, so every tick finds one at its reclaim step and at its
\* take: no tick panics at cleanup_finished, and the slot is empty only in a
\* process that died at the unwrap of then_execute.
C19_TokenAtEveryTickBoundary ==
    /\ pc # "panicked" => previous_frame_end # NoToken
    /\ pc # "panicked" => previous_frame_end.kind \in {"now", "fence"}
    /\ (pc = "panicked" /\ tickNo > 0) => Done("cleanup")
    /\ (pc = "panicked" /\ previous_frame_end = NoToken)
          => lastOutcome = "execute_error"

\* a tick has passed its reclaim step after a tick whose flush failed and with
\* an earlier submission behind it
C19_Witness ==
    /\ pc = "acquire"
    /\ Done("cleanup")
    /\ prevOutcome = "flush_error"
    /\ previous_frame_end = Now
    /\ submitNo >= 2

\* C20: only the submit step touches the token. A tick that returns from its
\* rebuild or its acquire leaves the slot, the set of unfinished frames and
\* the submission count as they were and has waited for nothing; the token
\* it left is the one the next submission takes and joins.
C20_AbortedTickKeepsToken ==
    /\ [][previous_frame_end' # previous_frame_end => pc = "submit"]_vars
    /\ [][(pc \in {"rebuild", "acquire"} /\ pc' \in {"idle", "acquire"})
            => /\ UNCHANGED <<previous_frame_end, unfinished, submitNo, joined, chain>>
               /\ chain = <<>>
               /\ \A i \in DOMAIN tickOps' :
                      tickOps'[i] \notin {"execute", "present", "flush", "wait"}]_vars
    /\ [][(pc = "submit" /\ pc' # "submit")
            => /\ joined' = previous_frame_end
               /\ chain'[1].of[1] = previous_frame_end]_vars

\* an acquire that was out of date, right after a rebuild of the same tick,
\* has returned with the fence of an earlier frame still in the slot
C20_Witness ==
    /\ pc = "idle"
    /\ lastOutcome = "acquire_out_of_date"
    /\ Before("setup", "acquire")
    /\ previous_frame_end.kind = "fence"
    /\ previous_frame_end.tick < tickNo

====
